---- MODULE Spec2Model ----
(***************************************************************************)
(* Model of fastly/bigquery.go: the four BigQuery logging operations of    *)
(* the client (GetBigQuery, CreateBigQuery, UpdateBigQuery,                *)
(* DeleteBigQuery).  Every operation is a pure function of its input       *)
(* struct and of what the HTTP client and the JSON decoder answer, so the  *)
(* initial states draw an operation, an input and the server's answer, and *)
(* one action per operation runs the whole function and records what it    *)
(* did (the requests and decodes, in order) and what it returned.          *)
(***************************************************************************)
EXTENDS Integers, Sequences, FiniteSets, TLC

VARIABLES op, i, server, pc, trace, result, err

vars == <<op, i, server, pc, trace, result, err>>

(* ------------------------------ bounds -------------------------------- *)

\* Versions range over -MaxVersion .. MaxVersion.
MaxVersion == 2

\* Longest JSON array the server answers a list request with.
MaxLen == 2

(* ------------------------------ values -------------------------------- *)

\* Go's nil: a nil pointer, a nil slice, a nil *RequestOptions.
Nil == [kind |-> "nil"]

\* A nil error.
NoErr == "nil"

ErrMissingService == "ErrMissingService"

ErrMissingVersion == "ErrMissingVersion"

ErrMissingName == "ErrMissingName"

ErrMissingNewName == "ErrMissingNewName"

ErrMissingProjectID == "ErrMissingProjectID"

ErrMissingDataset == "ErrMissingDataset"

ErrMissingTable == "ErrMissingTable"

ErrMissingUser == "ErrMissingUser"

ErrMissingSecretKey == "ErrMissingSecretKey"

\* fmt.Errorf("Not Ok")
ErrNotOk == "Not Ok"

\* Errors the HTTP client can answer a request with (network failure, non-2xx).
TransportErrs == { "dial tcp: connection refused", "404 - Not Found" }

\* Errors the JSON decoder can answer with.
DecodeErrs == { "unexpected EOF", "invalid character" }

Strings == { "", "a", "b" }

Services == { "", "svc" }

Versions == (0 - MaxVersion) .. MaxVersion

(* ------------------------------ inputs -------------------------------- *)

GetBigQueryInput == [ Service : Services, Version : Versions ]

CreateBigQueryInput ==
  [ Service : Services, Version : Versions, Name : Strings, ProjectID : Strings,
    Dataset : Strings, Table : Strings, User : Strings, SecretKey : Strings ]

UpdateBigQueryInput ==
  [ Service : Services, Version : Versions, Name : Strings, NewName : Strings ]

DeleteBigQueryInput == [ Service : Services, Version : Versions, Name : Strings ]

(* ------------------- the server's answer to a request ------------------ *)

\* One logging endpoint as the API writes it in JSON, keyed by wire name.
WireObjects ==
  { [ service_id |-> "svc", name |-> n, format |-> "%h", user |-> "u@x",
      project_id |-> "proj", dataset |-> "ds", table |-> "tbl",
      secret_key |-> "key", created_at |-> "t1", updated_at |-> "t2",
      deleted_at |-> "", response_condition |-> "cond" ] : n \in { "a", "b" } }

WireStatuses == [ status : { "ok", "error", "" }, msg : { "" } ]

RECURSIVE SeqsUpTo(_, _)
SeqsUpTo(S, n) ==
  IF n = 0 THEN { <<>> }
  ELSE LET shorter == SeqsUpTo(S, n - 1)
       IN  shorter \cup { Append(s, x) : s \in shorter, x \in S }

MalformedBodies == { [ kind |-> "malformed", err |-> e ] : e \in DecodeErrs }

NullBody == [ kind |-> "null" ]

ArrayBodies == { [ kind |-> "array", elems |-> s ] : s \in SeqsUpTo(WireObjects, MaxLen) }

ObjectBodies == { [ kind |-> "object", fields |-> o ] : o \in WireObjects }

StatusBodies == { [ kind |-> "object", fields |-> o ] : o \in WireStatuses }

Answers(bodies) ==
  { [ err |-> e, body |-> Nil ] : e \in TransportErrs }
    \cup { [ err |-> NoErr, body |-> b ] : b \in bodies \cup MalformedBodies \cup { NullBody } }

(* ----------------------------- formatting ------------------------------ *)

Digit(d) ==
  CASE d = 0 -> "0" [] d = 1 -> "1" [] d = 2 -> "2" [] d = 3 -> "3" [] d = 4 -> "4"
    [] d = 5 -> "5" [] d = 6 -> "6" [] d = 7 -> "7" [] d = 8 -> "8" [] d = 9 -> "9"

RECURSIVE Decimal(_)
Decimal(n) == IF n < 10 THEN Digit(n) ELSE Decimal(n \div 10) \o Digit(n % 10)

\* fmt's %d verb.
FormatInt(n) == IF n < 0 THEN "-" \o Decimal(0 - n) ELSE Decimal(n)

(* ------------------------------ decoding ------------------------------- *)

\* The mapstructure tags of the BigQuery struct.
BigQuery(o) ==
  [ ServiceID |-> o.service_id, Name |-> o.name, Format |-> o.format,
    User |-> o.user, ProjectID |-> o.project_id, Dataset |-> o.dataset,
    Table |-> o.table, SecretKey |-> o.secret_key, CreatedAt |-> o.created_at,
    UpdatedAt |-> o.updated_at, DeletedAt |-> o.deleted_at,
    ResponseCondition |-> o.response_condition ]

statusResp(o) == [ Status |-> o.status, Msg |-> o.msg ]

\* decodeJSON(&out, body) for out a nil []*BigQuery ("list"), *BigQuery
\* ("record") or *statusResp ("status"): the error, and out afterwards.  A
\* JSON null sets nothing, so out stays nil.
decodeJSON(target, body) ==
  CASE body.kind = "malformed" -> [ err |-> body.err, out |-> Nil ]
    [] body.kind = "null" -> [ err |-> NoErr, out |-> Nil ]
    [] body.kind = "array" ->
         [ err |-> NoErr,
           out |-> [ kind |-> "list",
                     items |-> [ k \in 1 .. Len(body.elems) |-> BigQuery(body.elems[k]) ] ] ]
    [] body.kind = "object" /\ target = "record" ->
         [ err |-> NoErr, out |-> [ kind |-> "record", rec |-> BigQuery(body.fields) ] ]
    [] body.kind = "object" /\ target = "status" ->
         [ err |-> NoErr, out |-> [ kind |-> "status", rec |-> statusResp(body.fields) ] ]

\* (*statusResp).Ok on a non-nil receiver.
Ok(r) == r.rec.Status = "ok"

(* --------------------------- what a call did --------------------------- *)

\* One request handed to the HTTP client: c.Get, c.PostForm, c.PutForm, c.Delete.
Request(method, path, form, ro) ==
  [ ev |-> "http", method |-> method, path |-> path, form |-> form, ro |-> ro ]

Decode == [ ev |-> "decode" ]

Returned(t, res, e) == [ pc |-> "returned", trace |-> t, result |-> res, err |-> e ]

\* A nil pointer dereference: the call does not return.
Panicked(t) == [ pc |-> "panicked", trace |-> t, result |-> Nil, err |-> NoErr ]

(* ----------------------------- GetBigQuery ----------------------------- *)

ValidateGet_VersionFirst(in) ==
  IF in.Version = 0 THEN ErrMissingVersion
  ELSE IF in.Service = "" THEN ErrMissingService
  ELSE NoErr

ValidateGet(in) ==
  IF in.Service = "" THEN ErrMissingService
  ELSE IF in.Version = 0 THEN ErrMissingVersion
  ELSE NoErr

GetBigQueryPath(in) ==
  "/service/" \o in.Service \o "/version/" \o FormatInt(in.Version) \o "/logging/bigquery"

GetBigQueryCall_FirstOnly(in, srv) ==
  LET v == ValidateGet(in)
      req == Request("GET", GetBigQueryPath(in), Nil, Nil)
      d == decodeJSON("list", srv.body)
  IN  IF v # NoErr THEN Returned(<<>>, Nil, v)
      ELSE IF srv.err # NoErr THEN Returned(<<req>>, Nil, srv.err)
      ELSE IF d.err # NoErr THEN Returned(<<req, Decode>>, Nil, d.err)
      ELSE IF d.out = Nil THEN Returned(<<req, Decode>>, Nil, NoErr)
      ELSE Returned(<<req, Decode>>,
                    [ kind |-> "list", items |-> SubSeq(d.out.items, 1, 1) ], NoErr)

GetBigQueryCall(in, srv) ==
  LET v == ValidateGet(in)
      req == Request("GET", GetBigQueryPath(in), Nil, Nil)
      d == decodeJSON("list", srv.body)
  IN  IF v # NoErr THEN Returned(<<>>, Nil, v)
      ELSE IF srv.err # NoErr THEN Returned(<<req>>, Nil, srv.err)
      ELSE IF d.err # NoErr THEN Returned(<<req, Decode>>, Nil, d.err)
      ELSE Returned(<<req, Decode>>, d.out, NoErr)

(* ---------------------------- CreateBigQuery --------------------------- *)

ValidateCreate_TableBeforeDataset(in) ==
  IF in.Service = "" THEN ErrMissingService
  ELSE IF in.Version = 0 THEN ErrMissingVersion
  ELSE IF in.Name = "" THEN ErrMissingName
  ELSE IF in.ProjectID = "" THEN ErrMissingProjectID
  ELSE IF in.Table = "" THEN ErrMissingTable
  ELSE IF in.Dataset = "" THEN ErrMissingDataset
  ELSE IF in.User = "" THEN ErrMissingUser
  ELSE IF in.SecretKey = "" THEN ErrMissingSecretKey
  ELSE NoErr

ValidateCreate(in) ==
  IF in.Service = "" THEN ErrMissingService
  ELSE IF in.Version = 0 THEN ErrMissingVersion
  ELSE IF in.Name = "" THEN ErrMissingName
  ELSE IF in.ProjectID = "" THEN ErrMissingProjectID
  ELSE IF in.Dataset = "" THEN ErrMissingDataset
  ELSE IF in.Table = "" THEN ErrMissingTable
  ELSE IF in.User = "" THEN ErrMissingUser
  ELSE IF in.SecretKey = "" THEN ErrMissingSecretKey
  ELSE NoErr

CreateBigQueryParams_UserAsSecret(in) ==
  [ name |-> in.Name, project_id |-> in.ProjectID, dataset |-> in.Dataset,
    table |-> in.Table, user |-> in.User, secret_key |-> in.User ]

CreateBigQueryParams(in) ==
  [ name |-> in.Name, project_id |-> in.ProjectID, dataset |-> in.Dataset,
    table |-> in.Table, user |-> in.User, secret_key |-> in.SecretKey ]

CreateBigQueryPath(in) ==
  "/service/" \o in.Service \o "/version/" \o FormatInt(in.Version) \o "/logging/gcs"

CreateBigQueryCall_Retries(in, srv) ==
  LET v == ValidateCreate(in)
      req == Request("POST", CreateBigQueryPath(in), in, [ Params |-> CreateBigQueryParams(in) ])
      d == decodeJSON("record", srv.body)
  IN  IF v # NoErr THEN Returned(<<>>, Nil, v)
      ELSE IF srv.err # NoErr THEN Returned(<<req, req>>, Nil, srv.err)
      ELSE IF d.err # NoErr THEN Returned(<<req, Decode>>, Nil, d.err)
      ELSE Returned(<<req, Decode>>, d.out, NoErr)

CreateBigQueryCall(in, srv) ==
  LET v == ValidateCreate(in)
      req == Request("POST", CreateBigQueryPath(in), in, [ Params |-> CreateBigQueryParams(in) ])
      d == decodeJSON("record", srv.body)
  IN  IF v # NoErr THEN Returned(<<>>, Nil, v)
      ELSE IF srv.err # NoErr THEN Returned(<<req>>, Nil, srv.err)
      ELSE IF d.err # NoErr THEN Returned(<<req, Decode>>, Nil, d.err)
      ELSE Returned(<<req, Decode>>, d.out, NoErr)

(* ---------------------------- UpdateBigQuery --------------------------- *)

ValidateUpdate_NewNameFirst(in) ==
  IF in.Service = "" THEN ErrMissingService
  ELSE IF in.Version = 0 THEN ErrMissingVersion
  ELSE IF in.NewName = "" THEN ErrMissingNewName
  ELSE IF in.Name = "" THEN ErrMissingName
  ELSE NoErr

ValidateUpdate(in) ==
  IF in.Service = "" THEN ErrMissingService
  ELSE IF in.Version = 0 THEN ErrMissingVersion
  ELSE IF in.Name = "" THEN ErrMissingName
  ELSE IF in.NewName = "" THEN ErrMissingNewName
  ELSE NoErr

UpdateBigQueryParams(in) == [ name |-> in.NewName ]

UpdateBigQueryPath_NewName(in) ==
  "/service/" \o in.Service \o "/version/" \o FormatInt(in.Version)
    \o "/logging/bigquery/" \o in.NewName

UpdateBigQueryPath(in) ==
  "/service/" \o in.Service \o "/version/" \o FormatInt(in.Version)
    \o "/logging/bigquery/" \o in.Name

UpdateBigQueryCall_WrapsError(in, srv) ==
  LET v == ValidateUpdate(in)
      req == Request("PUT", UpdateBigQueryPath(in), in, [ Params |-> UpdateBigQueryParams(in) ])
      d == decodeJSON("record", srv.body)
  IN  IF v # NoErr THEN Returned(<<>>, Nil, v)
      ELSE IF srv.err # NoErr THEN Returned(<<req>>, Nil, "update failed: " \o srv.err)
      ELSE IF d.err # NoErr THEN Returned(<<req, Decode>>, Nil, d.err)
      ELSE Returned(<<req, Decode>>, d.out, NoErr)

UpdateBigQueryCall(in, srv) ==
  LET v == ValidateUpdate(in)
      req == Request("PUT", UpdateBigQueryPath(in), in, [ Params |-> UpdateBigQueryParams(in) ])
      d == decodeJSON("record", srv.body)
  IN  IF v # NoErr THEN Returned(<<>>, Nil, v)
      ELSE IF srv.err # NoErr THEN Returned(<<req>>, Nil, srv.err)
      ELSE IF d.err # NoErr THEN Returned(<<req, Decode>>, Nil, d.err)
      ELSE Returned(<<req, Decode>>, d.out, NoErr)

(* ---------------------------- DeleteBigQuery --------------------------- *)

ValidateDelete_NoVersionCheck(in) ==
  IF in.Service = "" THEN ErrMissingService
  ELSE IF in.Name = "" THEN ErrMissingName
  ELSE NoErr

ValidateDelete(in) ==
  IF in.Service = "" THEN ErrMissingService
  ELSE IF in.Version = 0 THEN ErrMissingVersion
  ELSE IF in.Name = "" THEN ErrMissingName
  ELSE NoErr

DeleteBigQueryPath(in) ==
  "/service/" \o in.Service \o "/version/" \o FormatInt(in.Version)
    \o "/logging/bigquery/" \o in.Name

\* r is a *statusResp that decodeJSON leaves nil on a JSON null; r.Ok() then
\* reads a field through the nil pointer.
DeleteBigQueryCall(in, srv) ==
  LET v == ValidateDelete(in)
      req == Request("DELETE", DeleteBigQueryPath(in), Nil, Nil)
      d == decodeJSON("status", srv.body)
  IN  IF v # NoErr THEN Returned(<<>>, Nil, v)
      ELSE IF srv.err # NoErr THEN Returned(<<req>>, Nil, srv.err)
      ELSE IF d.err # NoErr THEN Returned(<<req, Decode>>, Nil, d.err)
      ELSE IF d.out = Nil THEN Panicked(<<req, Decode>>)
      ELSE IF ~Ok(d.out) THEN Returned(<<req, Decode>>, Nil, ErrNotOk)
      ELSE Returned(<<req, Decode>>, Nil, NoErr)

(* --------------------------- the state machine ------------------------- *)

Ops == { "GetBigQuery", "CreateBigQuery", "UpdateBigQuery", "DeleteBigQuery" }

Init ==
  /\ pc = "ready"
  /\ trace = <<>>
  /\ result = Nil
  /\ err = NoErr
  /\ \/ op = "GetBigQuery" /\ i \in GetBigQueryInput /\ server \in Answers(ArrayBodies)
     \/ op = "CreateBigQuery" /\ i \in CreateBigQueryInput /\ server \in Answers(ObjectBodies)
     \/ op = "UpdateBigQuery" /\ i \in UpdateBigQueryInput /\ server \in Answers(ObjectBodies)
     \/ op = "DeleteBigQuery" /\ i \in DeleteBigQueryInput /\ server \in Answers(StatusBodies)

Finish(r) ==
  /\ pc' = r.pc
  /\ trace' = r.trace
  /\ result' = r.result
  /\ err' = r.err
  /\ UNCHANGED <<op, i, server>>

GetBigQuery == pc = "ready" /\ op = "GetBigQuery" /\ Finish(GetBigQueryCall(i, server))

CreateBigQuery == pc = "ready" /\ op = "CreateBigQuery" /\ Finish(CreateBigQueryCall(i, server))

UpdateBigQuery == pc = "ready" /\ op = "UpdateBigQuery" /\ Finish(UpdateBigQueryCall(i, server))

DeleteBigQuery == pc = "ready" /\ op = "DeleteBigQuery" /\ Finish(DeleteBigQueryCall(i, server))

Next == GetBigQuery \/ CreateBigQuery \/ UpdateBigQuery \/ DeleteBigQuery

Spec == Init /\ [][Next]_vars

(* ------------------------- vocabulary of the claims -------------------- *)

Done == pc # "ready"

\* The nine Missing* error kinds.
MissingErrs ==
  { ErrMissingService, ErrMissingVersion, ErrMissingName, ErrMissingNewName,
    ErrMissingProjectID, ErrMissingDataset, ErrMissingTable, ErrMissingUser,
    ErrMissingSecretKey }

\* The requests the call handed to the HTTP client, in order.
Requests == SelectSeq(trace, LAMBDA e : e.ev = "http")

Decodes == SelectSeq(trace, LAMBDA e : e.ev = "decode")

\* The fields each operation documents as required, in documented order.
Required ==
  [ GetBigQuery |-> <<"Service", "Version">>,
    CreateBigQuery |-> <<"Service", "Version", "Name", "ProjectID", "Dataset", "Table",
                         "User", "SecretKey">>,
    UpdateBigQuery |-> <<"Service", "Version", "Name", "NewName">>,
    DeleteBigQuery |-> <<"Service", "Version", "Name">> ]

Missing(f) == IF f = "Version" THEN i.Version = 0 ELSE i[f] = ""

AllPresent == \A k \in 1 .. Len(Required[op]) : ~Missing(Required[op][k])

MissingErrOf ==
  [ Service |-> ErrMissingService, Version |-> ErrMissingVersion, Name |-> ErrMissingName,
    NewName |-> ErrMissingNewName, ProjectID |-> ErrMissingProjectID,
    Dataset |-> ErrMissingDataset, Table |-> ErrMissingTable, User |-> ErrMissingUser,
    SecretKey |-> ErrMissingSecretKey ]

\* The first missing required field, in documented order.
FirstMissing ==
  LET ks == { k \in 1 .. Len(Required[op]) : Missing(Required[op][k]) }
  IN  Required[op][CHOOSE k \in ks : \A j \in ks : k <= j]

\* Every request path of the four operations that carries version v.
PathsOfVersion(v) ==
  { "/service/" \o s \o "/version/" \o FormatInt(v) \o tail :
      s \in Services,
      tail \in { "/logging/bigquery", "/logging/gcs" }
                 \cup { "/logging/bigquery/" \o n : n \in Strings } }

(* -------------------------------- claims ------------------------------- *)

\* C1: in each of the four operations an empty service ID gives
\* MissingService whatever the other fields are, and a non-empty service ID
\* with a zero version gives MissingVersion whatever the remaining fields are.
C1_ServiceThenVersion ==
  Done =>
    /\ i.Service = "" => pc = "returned" /\ err = ErrMissingService
    /\ i.Service # "" /\ i.Version = 0 => pc = "returned" /\ err = ErrMissingVersion

C1_Witness ==
  /\ op = "GetBigQuery" /\ Done
  /\ i.Service = "" /\ i.Version = 0
  /\ err = ErrMissingService

\* C2: CreateBigQuery with at least one missing field returns the Missing*
\* error of the first missing field in the order service, version, name,
\* project ID, dataset, table, user, secret key.
C2_CreateFirstMissingWins ==
  op = "CreateBigQuery" /\ Done /\ ~AllPresent =>
    pc = "returned" /\ err = MissingErrOf[FirstMissing]

C2_Witness ==
  /\ op = "CreateBigQuery" /\ Done
  /\ i.Service # "" /\ i.Version # 0 /\ i.Name # "" /\ i.ProjectID # ""
  /\ i.Dataset = "" /\ i.Table = "" /\ i.SecretKey = ""
  /\ err = ErrMissingDataset

\* C3 as stated: a call whose version is not positive (zero or negative) is
\* rejected with MissingVersion without a request, so no request path carries
\* a version less than 1.
C3_NonPositiveVersionRejected ==
  Done =>
    /\ i.Service # "" /\ i.Version < 1 => err = ErrMissingVersion /\ Requests = <<>>
    /\ \A k \in 1 .. Len(Requests) :
         \E v \in 1 .. MaxVersion : Requests[k].path \in PathsOfVersion(v)

\* C3 as amended: a call whose version is zero is rejected with
\* MissingVersion without a request, so no request path carries version 0.
C3_ZeroVersionRejected ==
  Done =>
    /\ i.Service # "" /\ i.Version = 0 => err = ErrMissingVersion /\ Requests = <<>>
    /\ \A k \in 1 .. Len(Requests) : Requests[k].path \notin PathsOfVersion(0)

C3_Witness ==
  /\ op = "DeleteBigQuery" /\ Done
  /\ i.Service # "" /\ i.Version = 0 /\ i.Name # ""
  /\ err = ErrMissingVersion /\ Requests = <<>>

\* C4: a Missing* error is returned only when the call issued no request; a
\* call issues at most one request, exactly one when all required fields are
\* present and none otherwise; a failed request is not retried.
C4_AtMostOneRequest ==
  Done =>
    /\ Len(Requests) <= 1
    /\ err \in MissingErrs => Requests = <<>>
    /\ AllPresent <=> Len(Requests) = 1

C4_Witness ==
  /\ op = "CreateBigQuery" /\ Done /\ AllPresent
  /\ server.err \in TransportErrs
  /\ Len(Requests) = 1 /\ err = server.err

\* C5: with a non-empty service ID and a non-zero version, UpdateBigQuery and
\* DeleteBigQuery answer an empty name with MissingName, and UpdateBigQuery
\* answers a non-empty name with an empty new name with MissingNewName.
C5_NameThenNewName ==
  Done /\ i.Service # "" /\ i.Version # 0 =>
    /\ op \in { "UpdateBigQuery", "DeleteBigQuery" } /\ i.Name = "" => err = ErrMissingName
    /\ op = "UpdateBigQuery" /\ i.Name # "" /\ i.NewName = "" => err = ErrMissingNewName

C5_Witness ==
  /\ op = "UpdateBigQuery" /\ Done
  /\ i.Service # "" /\ i.Version # 0 /\ i.Name = "" /\ i.NewName = ""
  /\ err = ErrMissingName

\* C6: a valid UpdateBigQuery issues one PUT to
\* /service/{service}/version/{version}/logging/bigquery/{name} with the
\* current name in the path, and its parameters are exactly name = new name.
C6_UpdateRequest ==
  op = "UpdateBigQuery" /\ Done /\ AllPresent =>
    /\ Len(Requests) = 1
    /\ Requests[1].method = "PUT"
    /\ Requests[1].path =
         "/service/" \o i.Service \o "/version/" \o FormatInt(i.Version)
           \o "/logging/bigquery/" \o i.Name
    /\ DOMAIN Requests[1].ro.Params = { "name" }
    /\ Requests[1].ro.Params.name = i.NewName

C6_Witness ==
  /\ op = "UpdateBigQuery" /\ Done /\ AllPresent
  /\ i.Name = "a" /\ i.NewName = "b" /\ i.Version = 2
  /\ Requests[1].path = "/service/svc/version/2/logging/bigquery/a"

\* C7: a valid DeleteBigQuery whose request succeeds and whose response
\* decodes returns no error when the status is affirmative and the generic
\* error for every other decoded response, a response with no status object
\* included; it always returns.
C7_DeleteAcknowledged ==
  op = "DeleteBigQuery" /\ Done /\ AllPresent /\ i.Version >= 1 /\ server.err = NoErr
    /\ server.body.kind # "malformed" =>
      /\ pc = "returned"
      /\ Len(Requests) = 1 /\ Requests[1].method = "DELETE"
      /\ IF server.body.kind = "object" /\ server.body.fields.status = "ok"
         THEN err = NoErr
         ELSE err = ErrNotOk

\* C8: a valid CreateBigQuery issues one POST to
\* /service/{service}/version/{version}/logging/gcs whose parameters are
\* exactly name, project_id, dataset, table, user and secret_key with the
\* values of the input's fields, and returns the record decoded from the
\* response.
C8_CreateRequest ==
  op = "CreateBigQuery" /\ Done /\ AllPresent =>
    /\ Len(Requests) = 1
    /\ Requests[1].method = "POST"
    /\ Requests[1].path =
         "/service/" \o i.Service \o "/version/" \o FormatInt(i.Version) \o "/logging/gcs"
    /\ DOMAIN Requests[1].ro.Params =
         { "name", "project_id", "dataset", "table", "user", "secret_key" }
    /\ Requests[1].ro.Params.name = i.Name
    /\ Requests[1].ro.Params.project_id = i.ProjectID
    /\ Requests[1].ro.Params.dataset = i.Dataset
    /\ Requests[1].ro.Params.table = i.Table
    /\ Requests[1].ro.Params.user = i.User
    /\ Requests[1].ro.Params.secret_key = i.SecretKey
    /\ server.err = NoErr /\ server.body.kind = "object" =>
         /\ err = NoErr
         /\ result.kind = "record"
         /\ result.rec = BigQuery(server.body.fields)

C8_Witness ==
  /\ op = "CreateBigQuery" /\ Done /\ AllPresent
  /\ i.User = "a" /\ i.SecretKey = "b"
  /\ server.err = NoErr /\ server.body.kind = "object"
  /\ result.kind = "record" /\ result.rec.Name = "b"

\* C9: a valid GetBigQuery issues one GET without a body to
\* /service/{service}/version/{version}/logging/bigquery and, when the
\* response decodes, returns one record per element of the JSON array, in
\* the array's order (none for an empty array), and no error.
C9_ListRequest ==
  op = "GetBigQuery" /\ Done /\ AllPresent =>
    /\ Len(Requests) = 1
    /\ Requests[1].method = "GET"
    /\ Requests[1].path =
         "/service/" \o i.Service \o "/version/" \o FormatInt(i.Version)
           \o "/logging/bigquery"
    /\ Requests[1].form = Nil /\ Requests[1].ro = Nil
    /\ server.err = NoErr /\ server.body.kind = "array" =>
         /\ err = NoErr
         /\ result.kind = "list"
         /\ Len(result.items) = Len(server.body.elems)
         /\ \A k \in 1 .. Len(server.body.elems) :
              result.items[k] = BigQuery(server.body.elems[k])

C9_Witness ==
  /\ op = "GetBigQuery" /\ Done /\ AllPresent
  /\ server.err = NoErr /\ server.body.kind = "array" /\ Len(server.body.elems) = 2
  /\ result.kind = "list"
  /\ result.items[1].Name = "b" /\ result.items[2].Name = "a"

\* C10: in all four operations a failed request or a failed decode is
\* returned as the same error value with no record, and a failed request
\* prevents any decode.
C10_ErrorsUnchanged ==
  Done /\ AllPresent =>
    /\ server.err # NoErr =>
         pc = "returned" /\ err = server.err /\ result = Nil /\ Decodes = <<>>
    /\ server.err = NoErr /\ server.body.kind = "malformed" =>
         pc = "returned" /\ err = server.body.err /\ result = Nil /\ Len(Decodes) = 1

C10_Witness ==
  /\ op = "UpdateBigQuery" /\ Done /\ AllPresent
  /\ server.err = "404 - Not Found"
  /\ err = "404 - Not Found" /\ result = Nil /\ Decodes = <<>>

====
